---- MODULE Spec2Model ----
(***************************************************************************)
(* Model of the calculator state machine of src/dir/calculator.py          *)
(* (class Calculator): the display text, left_operand, pending_op and      *)
(* waiting_for_new_number, and the six handlers _digit_clicked,            *)
(* _dot_clicked, _operator_clicked, _equals_clicked, _clear, _backspace.   *)
(*                                                                         *)
(* Texts are sequences of one-character strings.  A Python float is a      *)
(* record [k, neg, num, den]: k = "fin" is the signed rational             *)
(* (-1)^neg * num/den in lowest terms (so 0.0 and -0.0 differ), k = "inf"  *)
(* is the signed infinity, k = "nan" is NaN.  Arithmetic on finite values  *)
(* is exact; the model only admits results whose displayed text has at     *)
(* most MaxFrac fractional digits, where binary rounding cannot change the *)
(* ten digits that _format_number prints, and only evaluates operands      *)
(* whose numerator and denominator are at most MaxOperand.                 *)
(***************************************************************************)
EXTENDS Integers, Sequences, FiniteSets, TLC

\* ------------------------------------------------------------------ bounds
\* digit keys delivered in the state space are "0" .. MaxDigit
MaxDigit == 2
\* events delivered after construction
MaxEvents == 5
\* fractional digits a displayed result may have
MaxFrac == 4
\* largest numerator and denominator of an operand of an evaluation
MaxOperand == 10000

\* ------------------------------------------------------------------ texts
DigitChars == <<"0", "1", "2", "3", "4", "5", "6", "7", "8", "9">>

IsDigit(c) == \E i \in 1..10 : DigitChars[i] = c

DigitVal(c) == (CHOOSE i \in 1..10 : DigitChars[i] = c) - 1

ErrorText == <<"E", "r", "r", "o", "r">>

NanText == <<"n", "a", "n">>

InfText == <<"i", "n", "f">>

Contains(text, c) == \E i \in 1..Len(text) : text[i] = c

Count(text, c) == Cardinality({i \in 1..Len(text) : text[i] = c})

\* str.rstrip(c) for a single character c
RECURSIVE RStrip(_, _)
RStrip(text, c) ==
    IF text # <<>> /\ text[Len(text)] = c
    THEN RStrip(SubSeq(text, 1, Len(text) - 1), c)
    ELSE text

\* ----------------------------------------------------------------- floats
RECURSIVE GCD(_, _)
GCD(a, b) == IF b = 0 THEN a ELSE GCD(b, a % b)

RECURSIVE Pow10(_)
Pow10(n) == IF n = 0 THEN 1 ELSE 10 * Pow10(n - 1)

Fin(neg, num, den) ==
    LET g == GCD(num, den)
    IN  [k |-> "fin", neg |-> neg, num |-> num \div g, den |-> den \div g]

Zero == [k |-> "fin", neg |-> FALSE, num |-> 0, den |-> 1]

Inf(neg) == [k |-> "inf", neg |-> neg, num |-> 0, den |-> 1]

NaN == [k |-> "nan", neg |-> FALSE, num |-> 0, den |-> 1]

\* Python's None in left_operand
None == [k |-> "none", neg |-> FALSE, num |-> 0, den |-> 1]

\* Python's None in pending_op
NoOp == "None"

Ops == {"+", "-", "*", "/"}

IsZero(v) == v.k = "fin" /\ v.num = 0

Negate(v) == IF v.k = "nan" THEN v ELSE [v EXCEPT !.neg = ~v.neg]

\* a + b on floats
FAdd(a, b) ==
    IF a.k = "nan" \/ b.k = "nan" THEN NaN
    ELSE IF a.k = "inf" /\ b.k = "inf"
         THEN IF a.neg = b.neg THEN a ELSE NaN
    ELSE IF a.k = "inf" THEN a
    ELSE IF b.k = "inf" THEN b
    ELSE LET sa == IF a.neg THEN 0 - a.num ELSE a.num
             sb == IF b.neg THEN 0 - b.num ELSE b.num
             s  == sa * b.den + sb * a.den
         IN  IF s = 0 THEN Fin(a.neg /\ b.neg, 0, 1)
             ELSE IF s < 0 THEN Fin(TRUE, 0 - s, a.den * b.den)
             ELSE Fin(FALSE, s, a.den * b.den)

\* a - b on floats
FSub(a, b) == FAdd(a, Negate(b))

\* a * b on floats
FMul(a, b) ==
    IF a.k = "nan" \/ b.k = "nan" THEN NaN
    ELSE IF (a.k = "inf" /\ IsZero(b)) \/ (b.k = "inf" /\ IsZero(a)) THEN NaN
    ELSE IF a.k = "inf" \/ b.k = "inf" THEN Inf(a.neg # b.neg)
    ELSE Fin(a.neg # b.neg, a.num * b.num, a.den * b.den)

\* a / b on floats, b not zero
FDiv(a, b) ==
    IF a.k = "nan" \/ b.k = "nan" THEN NaN
    ELSE IF a.k = "inf" /\ b.k = "inf" THEN NaN
    ELSE IF a.k = "inf" THEN Inf(a.neg # b.neg)
    ELSE IF b.k = "inf" THEN Fin(a.neg # b.neg, 0, 1)
    ELSE Fin(a.neg # b.neg, a.num * b.den, a.den * b.num)

\* ------------------------------------------------------ float(text)
RECURSIVE DigitsValue(_)
DigitsValue(text) ==
    IF text = <<>> THEN 0
    ELSE DigitsValue(SubSeq(text, 1, Len(text) - 1)) * 10 + DigitVal(text[Len(text)])

\* the unsigned decimal literals float() accepts: digits with at most one
\* point and at least one digit
IsDecimal(body) ==
    /\ \A i \in 1..Len(body) : IsDigit(body[i]) \/ body[i] = "."
    /\ Count(body, ".") <= 1
    /\ \E i \in 1..Len(body) : IsDigit(body[i])

\* float(text): ok = FALSE stands for the ValueError.  Only the characters
\* this program ever writes to the display are considered.
ParseFloat(text) ==
    LET neg  == text # <<>> /\ text[1] = "-"
        body == IF neg THEN Tail(text) ELSE text
    IN  IF body = InfText THEN [ok |-> TRUE, val |-> Inf(neg)]
        ELSE IF body = NanText THEN [ok |-> TRUE, val |-> NaN]
        ELSE IF IsDecimal(body)
        THEN LET dot  == IF Contains(body, ".")
                         THEN CHOOSE i \in 1..Len(body) : body[i] = "."
                         ELSE Len(body)
             IN  [ok |-> TRUE,
                  val |-> Fin(neg, DigitsValue(SelectSeq(body, IsDigit)),
                              Pow10(Len(body) - dot))]
        ELSE [ok |-> FALSE, val |-> Zero]

\* try: cur_val = float(self.display.text()) / except Exception: cur_val = 0.0
cur_val(text) == IF ParseFloat(text).ok THEN ParseFloat(text).val ELSE Zero

\* ------------------------------------------------- "{:.10f}".format(v)
FracDigits == 10

RECURSIVE LongDiv(_, _, _)
LongDiv(r, den, n) ==
    IF n = 0 THEN [ds |-> <<>>, rem |-> r]
    ELSE LET rest == LongDiv((r * 10) % den, den, n - 1)
         IN  [ds |-> <<(r * 10) \div den>> \o rest.ds, rem |-> rest.rem]

RECURSIVE IntDigits(_)
IntDigits(n) ==
    IF n < 10 THEN <<n>> ELSE IntDigits(n \div 10) \o <<n % 10>>

RECURSIVE IncDigits(_)
IncDigits(ds) ==
    IF ds = <<>> THEN <<1>>
    ELSE IF ds[Len(ds)] = 9
         THEN IncDigits(SubSeq(ds, 1, Len(ds) - 1)) \o <<0>>
         ELSE SubSeq(ds, 1, Len(ds) - 1) \o <<ds[Len(ds)] + 1>>

ToChars(ds) == [i \in 1..Len(ds) |-> DigitChars[ds[i] + 1]]

\* fixed-point rendering with FracDigits fractional digits, the exact value
\* rounded half to even
FixedPoint(v) ==
    IF v.k = "nan" THEN NanText
    ELSE IF v.k = "inf" THEN (IF v.neg THEN <<"-">> ELSE <<>>) \o InfText
    ELSE LET ld    == LongDiv(v.num % v.den, v.den, FracDigits)
             all   == IntDigits(v.num \div v.den) \o ld.ds
             up    == \/ 2 * ld.rem > v.den
                      \/ 2 * ld.rem = v.den /\ all[Len(all)] % 2 = 1
             round == IF up THEN IncDigits(all) ELSE all
             cut   == Len(round) - FracDigits
         IN  (IF v.neg THEN <<"-">> ELSE <<>>)
                 \o ToChars(SubSeq(round, 1, cut))
                 \o <<".">>
                 \o ToChars(SubSeq(round, cut + 1, Len(round)))

\* _evaluate without the test for a zero divisor: the ZeroDivisionError of
\* a / b is caught by the handler at line 265 and 0.0 is returned
evaluate_zero_division_caught(a, b, op) ==
    IF op = "+" THEN FAdd(a, b)
    ELSE IF op = "-" THEN FSub(a, b)
    ELSE IF op = "*" THEN FMul(a, b)
    ELSE IF IsZero(b) THEN Zero
    ELSE FDiv(a, b)

\* ------------------------------------------------------------ _evaluate
evaluate(a, b, op) ==
    IF op = "+" THEN FAdd(a, b)
    ELSE IF op = "-" THEN FSub(a, b)
    ELSE IF op = "*" THEN FMul(a, b)
    ELSE IF IsZero(b) THEN Inf(FALSE)
    ELSE FDiv(a, b)

\* format_number without the test for the error value
format_number_no_error(v) ==
    LET text == RStrip(RStrip(FixedPoint(v), "0"), ".")
    IN  IF text = <<>> THEN <<"0">> ELSE text

\* format_number that strips the trailing zeros but not a trailing point
format_number_keeps_point(v) ==
    IF v = Inf(FALSE) THEN ErrorText
    ELSE LET text == RStrip(FixedPoint(v), "0")
         IN  IF text = <<>> THEN <<"0">> ELSE text

\* ------------------------------------------------------- _format_number
format_number(v) ==
    IF v = Inf(FALSE) THEN ErrorText
    ELSE LET text == RStrip(RStrip(FixedPoint(v), "0"), ".")
         IN  IF text = <<>> THEN <<"0">> ELSE text

\* ---------------------------------------------------------------- state
VARIABLES
    display,                  \* self.display.text()
    left_operand,             \* self.left_operand (None when absent)
    pending_op,               \* self.pending_op (NoOp when absent)
    waiting_for_new_number,   \* self.waiting_for_new_number
    event,                    \* the event the input adapter delivered last
    pre,                      \* the calculator's fields before that event
    typed,                    \* the digits delivered so far, while only digits were
    nEvents                   \* number of events delivered

vars == <<display, left_operand, pending_op, waiting_for_new_number,
          event, pre, typed, nEvents>>

\* the calculator's fields as one record
Calc == [display |-> display, left_operand |-> left_operand,
         pending_op |-> pending_op,
         waiting_for_new_number |-> waiting_for_new_number]

\* the fields after Calculator.__init__
InitCalc == [display |-> <<"0">>, left_operand |-> None,
             pending_op |-> NoOp, waiting_for_new_number |-> TRUE]

\* -------------------------------------------------------------- handlers
\* Each handler maps the fields before the call to the fields after it.

\* digit_clicked that always appends to an entry in progress
digit_clicked_append(s, ch) ==
    IF s.waiting_for_new_number
    THEN [s EXCEPT !.display = IF ch = "0" THEN <<"0">> ELSE <<ch>>,
                   !.waiting_for_new_number = FALSE]
    ELSE IF s.display = <<"0">> /\ ch = "0" THEN s
         ELSE [s EXCEPT !.display = s.display \o <<ch>>]

\* digit_clicked that does not suppress a repeated zero
digit_clicked_zeros(s, ch) ==
    IF s.waiting_for_new_number
    THEN [s EXCEPT !.display = IF ch = "0" THEN <<"0">> ELSE <<ch>>,
                   !.waiting_for_new_number = FALSE]
    ELSE IF s.display = <<"0">> /\ ch # "0" /\ ~Contains(s.display, ".")
         THEN [s EXCEPT !.display = <<ch>>]
         ELSE [s EXCEPT !.display = s.display \o <<ch>>]

digit_clicked(s, ch) ==
    IF s.waiting_for_new_number
    THEN [s EXCEPT !.display = IF ch = "0" THEN <<"0">> ELSE <<ch>>,
                   !.waiting_for_new_number = FALSE]
    ELSE LET current == s.display
         IN  IF current = <<"0">> /\ ch = "0" THEN s
             ELSE IF current = <<"0">> /\ ch # "0" /\ ~Contains(current, ".")
                  THEN [s EXCEPT !.display = <<ch>>]
                  ELSE [s EXCEPT !.display = current \o <<ch>>]

\* dot_clicked that appends a point whether or not one is present
dot_clicked_no_check(s) ==
    IF s.waiting_for_new_number
    THEN [s EXCEPT !.display = <<"0", ".">>,
                   !.waiting_for_new_number = FALSE]
    ELSE [s EXCEPT !.display = s.display \o <<".">>]

\* dot_clicked that starts the entry "0." but still awaits a new number
dot_clicked_keeps_waiting(s) ==
    IF s.waiting_for_new_number
    THEN [s EXCEPT !.display = <<"0", ".">>]
    ELSE IF ~Contains(s.display, ".")
         THEN [s EXCEPT !.display = s.display \o <<".">>]
         ELSE s

dot_clicked(s) ==
    IF s.waiting_for_new_number
    THEN [s EXCEPT !.display = <<"0", ".">>,
                   !.waiting_for_new_number = FALSE]
    ELSE IF ~Contains(s.display, ".")
         THEN [s EXCEPT !.display = s.display \o <<".">>]
         ELSE s

\* operator_clicked that never evaluates the pending operator
operator_clicked_no_chain(s, op) ==
    IF s.left_operand = None
    THEN [s EXCEPT !.left_operand = cur_val(s.display),
                   !.pending_op = op,
                   !.waiting_for_new_number = TRUE]
    ELSE [s EXCEPT !.pending_op = op,
                   !.waiting_for_new_number = TRUE]

\* operator_clicked that evaluates the pending operator even when no new
\* number was typed
operator_clicked_always_eval(s, op) ==
    LET cur == cur_val(s.display)
    IN  IF s.left_operand = None
        THEN [s EXCEPT !.left_operand = cur,
                       !.pending_op = op,
                       !.waiting_for_new_number = TRUE]
        ELSE IF s.pending_op # NoOp
             THEN LET result == evaluate(s.left_operand, cur, s.pending_op)
                  IN  [s EXCEPT !.left_operand = result,
                                !.display = format_number(result),
                                !.pending_op = op,
                                !.waiting_for_new_number = TRUE]
             ELSE [s EXCEPT !.pending_op = op,
                            !.waiting_for_new_number = TRUE]

\* operator_clicked that starts a computation from 0.0 instead of the
\* displayed number
operator_clicked_zero_left(s, op) ==
    LET cur == cur_val(s.display)
    IN  IF s.left_operand = None
        THEN [s EXCEPT !.left_operand = Zero,
                       !.pending_op = op,
                       !.waiting_for_new_number = TRUE]
        ELSE IF s.pending_op # NoOp /\ ~s.waiting_for_new_number
             THEN LET result == evaluate(s.left_operand, cur, s.pending_op)
                  IN  [s EXCEPT !.left_operand = result,
                                !.display = format_number(result),
                                !.pending_op = op,
                                !.waiting_for_new_number = TRUE]
             ELSE [s EXCEPT !.pending_op = op,
                            !.waiting_for_new_number = TRUE]

\* operator_clicked that does not start awaiting a new number
operator_clicked_keeps_waiting(s, op) ==
    LET cur == cur_val(s.display)
    IN  IF s.left_operand = None
        THEN [s EXCEPT !.left_operand = cur,
                       !.pending_op = op]
        ELSE IF s.pending_op # NoOp /\ ~s.waiting_for_new_number
             THEN LET result == evaluate(s.left_operand, cur, s.pending_op)
                  IN  [s EXCEPT !.left_operand = result,
                                !.display = format_number(result),
                                !.pending_op = op]
             ELSE [s EXCEPT !.pending_op = op]

operator_clicked(s, op) ==
    LET cur == cur_val(s.display)
    IN  IF s.left_operand = None
        THEN [s EXCEPT !.left_operand = cur,
                       !.pending_op = op,
                       !.waiting_for_new_number = TRUE]
        ELSE IF s.pending_op # NoOp /\ ~s.waiting_for_new_number
             THEN LET result == evaluate(s.left_operand, cur, s.pending_op)
                  IN  [s EXCEPT !.left_operand = result,
                                !.display = format_number(result),
                                !.pending_op = op,
                                !.waiting_for_new_number = TRUE]
             ELSE [s EXCEPT !.pending_op = op,
                            !.waiting_for_new_number = TRUE]

\* equals_clicked without the early return: the reset runs in any case
equals_clicked_no_guard(s) ==
    IF s.pending_op = NoOp
    THEN [s EXCEPT !.left_operand = None,
                   !.waiting_for_new_number = TRUE]
    ELSE LET result == evaluate(IF s.left_operand # None
                                THEN s.left_operand ELSE Zero,
                                cur_val(s.display), s.pending_op)
         IN  [display |-> format_number(result),
              left_operand |-> None,
              pending_op |-> NoOp,
              waiting_for_new_number |-> TRUE]

\* equals_clicked that keeps the result as the left operand
equals_clicked_keeps_left(s) ==
    IF s.pending_op = NoOp THEN s
    ELSE LET result == evaluate(IF s.left_operand # None
                                THEN s.left_operand ELSE Zero,
                                cur_val(s.display), s.pending_op)
         IN  [display |-> format_number(result),
              left_operand |-> result,
              pending_op |-> NoOp,
              waiting_for_new_number |-> TRUE]

\* equals_clicked that does not start awaiting a new number
equals_clicked_keeps_waiting(s) ==
    IF s.pending_op = NoOp THEN s
    ELSE LET result == evaluate(IF s.left_operand # None
                                THEN s.left_operand ELSE Zero,
                                cur_val(s.display), s.pending_op)
         IN  [display |-> format_number(result),
              left_operand |-> None,
              pending_op |-> NoOp,
              waiting_for_new_number |-> s.waiting_for_new_number]

equals_clicked(s) ==
    IF s.pending_op = NoOp THEN s
    ELSE LET cur    == cur_val(s.display)
             result == evaluate(IF s.left_operand # None
                                THEN s.left_operand ELSE Zero,
                                cur, s.pending_op)
         IN  [display |-> format_number(result),
              left_operand |-> None,
              pending_op |-> NoOp,
              waiting_for_new_number |-> TRUE]

\* clear that leaves the pending operator in place
clear_keeps_op(s) ==
    [display |-> <<"0">>, left_operand |-> None,
     pending_op |-> s.pending_op, waiting_for_new_number |-> TRUE]

\* clear that leaves the left operand in place
clear_keeps_left(s) ==
    [display |-> <<"0">>, left_operand |-> s.left_operand,
     pending_op |-> NoOp, waiting_for_new_number |-> TRUE]

clear(s) ==
    [display |-> <<"0">>, left_operand |-> None,
     pending_op |-> NoOp, waiting_for_new_number |-> TRUE]

\* backspace that shows "0" for a last character but keeps the entry open
backspace_keeps_entry(s) ==
    IF s.waiting_for_new_number
    THEN [s EXCEPT !.display = <<"0">>]
    ELSE IF Len(s.display) <= 1
         THEN [s EXCEPT !.display = <<"0">>]
         ELSE [s EXCEPT !.display = SubSeq(s.display, 1, Len(s.display) - 1)]

\* backspace without the test for an awaited new number
backspace_no_waiting_check(s) ==
    IF Len(s.display) <= 1
    THEN [s EXCEPT !.display = <<"0">>,
                   !.waiting_for_new_number = TRUE]
    ELSE [s EXCEPT !.display = SubSeq(s.display, 1, Len(s.display) - 1)]

\* backspace that removes the last character whatever the length
backspace_to_empty(s) ==
    IF s.waiting_for_new_number
    THEN [s EXCEPT !.display = <<"0">>]
    ELSE [s EXCEPT !.display = SubSeq(s.display, 1, Len(s.display) - 1)]

backspace(s) ==
    IF s.waiting_for_new_number
    THEN [s EXCEPT !.display = <<"0">>]
    ELSE LET text == s.display
         IN  IF Len(text) <= 1
             THEN [s EXCEPT !.display = <<"0">>,
                            !.waiting_for_new_number = TRUE]
             ELSE [s EXCEPT !.display = SubSeq(text, 1, Len(text) - 1)]

\* ---------------------------------------------------------------- events
Digits == {DigitChars[i + 1] : i \in 0..MaxDigit}

\* marks that an event other than a digit has been delivered
NotDigits == <<"x">>

\* the number of digits after the decimal point of a text
FracLen(text) ==
    IF Contains(text, ".")
    THEN Len(text) - (CHOOSE i \in 1..Len(text) : text[i] = ".")
    ELSE 0

\* a float whose numerator and denominator are within MaxOperand
InRange(v) == v.k = "fin" => v.num <= MaxOperand /\ v.den <= MaxOperand

\* the fields s hold operands within MaxOperand for an evaluation
Computable(s) == InRange(s.left_operand) /\ InRange(cur_val(s.display))

\* the handler's outcome n becomes the calculator's fields
Deliver(ev, n) ==
    /\ nEvents < MaxEvents
    /\ ev[1] \in {"operator", "equals"} => Computable(Calc)
    /\ FracLen(n.display) <= MaxFrac
    /\ display' = n.display
    /\ left_operand' = n.left_operand
    /\ pending_op' = n.pending_op
    /\ waiting_for_new_number' = n.waiting_for_new_number
    /\ event' = ev
    /\ pre' = Calc
    /\ typed' = IF ev[1] = "digit" /\ typed # NotDigits
                THEN typed \o <<ev[2]>> ELSE NotDigits
    /\ nEvents' = nEvents + 1

Init ==
    /\ display = InitCalc.display
    /\ left_operand = InitCalc.left_operand
    /\ pending_op = InitCalc.pending_op
    /\ waiting_for_new_number = InitCalc.waiting_for_new_number
    /\ event = <<"none", "">>
    /\ pre = InitCalc
    /\ typed = <<>>
    /\ nEvents = 0

DigitEntered == \E ch \in Digits : Deliver(<<"digit", ch>>, digit_clicked(Calc, ch))

DecimalPointEntered == Deliver(<<"dot", "">>, dot_clicked(Calc))

OperatorEntered == \E op \in Ops : Deliver(<<"operator", op>>, operator_clicked(Calc, op))

EqualsEntered == Deliver(<<"equals", "">>, equals_clicked(Calc))

ClearEntered == Deliver(<<"clear", "">>, clear(Calc))

BackspaceEntered == Deliver(<<"backspace", "">>, backspace(Calc))

Next ==
    \/ DigitEntered
    \/ DecimalPointEntered
    \/ OperatorEntered
    \/ EqualsEntered
    \/ ClearEntered
    \/ BackspaceEntered

Spec == Init /\ [][Next]_vars

\* the fields after delivering the events of evs, in order, to the fields s
RECURSIVE Run(_, _)
Run(s, evs) ==
    IF evs = <<>> THEN s
    ELSE LET ev == Head(evs)
             n  == IF ev[1] = "digit" THEN digit_clicked(s, ev[2])
                   ELSE IF ev[1] = "dot" THEN dot_clicked(s)
                   ELSE IF ev[1] = "operator" THEN operator_clicked(s, ev[2])
                   ELSE IF ev[1] = "equals" THEN equals_clicked(s)
                   ELSE IF ev[1] = "clear" THEN clear(s)
                   ELSE backspace(s)
         IN  Run(n, Tail(evs))

\* the events of a key sequence written as one-character keys:
\* digits, ".", the operators, "=", "C" and "B" (backspace)
Keys(ks) ==
    [i \in 1..Len(ks) |->
        IF IsDigit(ks[i]) THEN <<"digit", ks[i]>>
        ELSE IF ks[i] = "." THEN <<"dot", "">>
        ELSE IF ks[i] \in Ops THEN <<"operator", ks[i]>>
        ELSE IF ks[i] = "=" THEN <<"equals", "">>
        ELSE IF ks[i] = "C" THEN <<"clear", "">>
        ELSE <<"backspace", "">>]

\* the text shown after the keys ks are entered from the initial fields
Shown(ks) == Run(InitCalc, Keys(ks)).display

TypeOK ==
    /\ nEvents \in 0..MaxEvents
    /\ waiting_for_new_number \in BOOLEAN
    /\ pending_op \in Ops \cup {NoOp}
    /\ left_operand.k \in {"none", "fin", "inf", "nan"}

\* ---------------------------------------------------------------- claims
\* The fields named displayText, leftOperand, pendingOp and awaitingNewEntry
\* in the specification are display, left_operand, pending_op and
\* waiting_for_new_number.

\* a text showing a finite number
IsNumeric(text) == ParseFloat(text).ok /\ ParseFloat(text).val.k = "fin"

\* C1: an operator entered while a left operand and a pending operator are
\* present and a new number has been typed evaluates the pending operator
\* on (left operand, displayed number), stores and shows the result and
\* then makes the new operator pending; so 2 + 3 + 4 = shows 9 and
\* 2 + 3 * 4 = shows 20.
C1_Examples ==
    /\ Shown(<<"2", "+", "3", "+", "4", "=">>) = <<"9">>
    /\ Shown(<<"2", "+", "3", "*", "4", "=">>) = <<"2", "0">>

C1_ChainedEvaluation ==
    /\ C1_Examples
    /\ ( /\ event[1] = "operator"
         /\ pre.left_operand # None
         /\ pre.pending_op # NoOp
         /\ ~pre.waiting_for_new_number )
       => /\ left_operand = evaluate(pre.left_operand,
                                     ParseFloat(pre.display).val,
                                     pre.pending_op)
          /\ display = format_number(left_operand)
          /\ pending_op = event[2]

C1_Witness ==
    /\ event[1] = "operator"
    /\ pre.left_operand # None
    /\ pre.pending_op = "+"
    /\ ~pre.waiting_for_new_number
    /\ pre.display = <<"2">>
    /\ display = <<"3">>

\* C2: an operator entered while an operator is pending and no new number
\* has been typed only replaces the pending operator: left operand and
\* display keep their values; so 2 + * 3 = shows 6.
C2_Example == Shown(<<"2", "+", "*", "3", "=">>) = <<"6">>

C2_OperatorOverride ==
    /\ C2_Example
    /\ ( /\ event[1] = "operator"
         /\ pre.pending_op # NoOp
         /\ pre.waiting_for_new_number )
       => /\ left_operand = pre.left_operand
          /\ display = pre.display
          /\ waiting_for_new_number = pre.waiting_for_new_number
          /\ pending_op = event[2]

C2_Witness ==
    /\ event = <<"operator", "*">>
    /\ pre.pending_op = "+"
    /\ pre.waiting_for_new_number
    /\ pre.display = <<"2">>
    /\ pending_op = "*"

\* C3: clear leads to exactly the initial fields from every reachable
\* state.
C3_ClearResets == event[1] = "clear" => Calc = InitCalc

C3_Witness ==
    /\ event[1] = "clear"
    /\ pre.display = ErrorText
    /\ pre.pending_op # NoOp

\* C4: equals entered while no operator is pending changes no field, and
\* a second equals right after an equals changes nothing more.
C4_EqualsNoOp ==
    /\ (event[1] = "equals" /\ pre.pending_op = NoOp) => Calc = pre
    /\ event[1] = "equals" => equals_clicked(Calc) = Calc

C4_Witness ==
    /\ event[1] = "equals"
    /\ pre.pending_op = NoOp
    /\ ~pre.waiting_for_new_number
    /\ pre.display = <<"1", "2">>

\* C5: equals entered while an operator is pending shows the formatted
\* result of that operator on (left operand, number displayed before the
\* event) and leaves left operand and operator absent and a new entry
\* awaited; so 5 + = shows 10.
C5_Example == Shown(<<"5", "+", "=">>) = <<"1", "0">>

C5_EqualsEvaluates ==
    /\ C5_Example
    /\ (event[1] = "equals" /\ pre.pending_op # NoOp)
       => /\ display = format_number(evaluate(pre.left_operand,
                                              cur_val(pre.display),
                                              pre.pending_op))
          /\ left_operand = None
          /\ pending_op = NoOp
          /\ waiting_for_new_number

C5_Witness ==
    /\ event[1] = "equals"
    /\ pre.pending_op = "+"
    /\ pre.waiting_for_new_number
    /\ pre.display = <<"2">>
    /\ display = <<"4">>

\* C6: when equals has just shown a numeric result and an operator is
\* entered next, the left operand becomes the number shown, the operator
\* becomes pending and the display does not change; so 2 + 3 = * 4 =
\* shows 20.
C6_Example ==
    Shown(<<"2", "+", "3", "=", "*", "4", "=">>) = <<"2", "0">>

C6_ResultChains ==
    [][ /\ C6_Example
        /\ ( /\ event[1] = "equals"
             /\ pre.pending_op # NoOp
             /\ IsNumeric(display)
             /\ event'[1] = "operator" )
           => /\ left_operand' = ParseFloat(display).val
              /\ pending_op' = event'[2]
              /\ display' = display ]_vars

C6_Witness ==
    /\ event = <<"operator", "*">>
    /\ pre.display = <<"3">>
    /\ pre.waiting_for_new_number
    /\ pre.pending_op = NoOp
    /\ left_operand = Fin(FALSE, 3, 1)

\* C7 as stated: the display is always "Error" or a literal made only of
\* digits and at most one decimal point.
C7_UnsignedLiteralOrError == display = ErrorText \/ IsDecimal(display)

\* C7 as amended: the display is always "Error", "nan", "-inf" or a
\* literal of digits with at most one decimal point that may carry a
\* leading minus sign; it is never empty.
C7_SignedLiteralOrToken ==
    \/ display \in {ErrorText, NanText, <<"-">> \o InfText}
    \/ IsDecimal(display)
    \/ display # <<>> /\ display[1] = "-" /\ IsDecimal(Tail(display))

C7_Witness ==
    /\ event[1] = "equals"
    /\ pre.pending_op = "-"
    /\ display = <<"-", "1">>

\* C8: the display never contains more than one decimal point.
C8_AtMostOnePoint == Count(display, ".") <= 1

C8_Witness ==
    /\ event[1] = "dot"
    /\ ~pre.waiting_for_new_number
    /\ Contains(pre.display, ".")
    /\ display = <<"1", ".", "2">>

\* C9: the display never begins with the digit 0 followed by another
\* digit.
C9_NoLeadingZero ==
    ~(Len(display) >= 2 /\ display[1] = "0" /\ IsDigit(display[2]))

C9_Witness ==
    /\ event[1] = "digit"
    /\ ~pre.waiting_for_new_number
    /\ pre.display = <<"0">>
    /\ display = <<"2">>
    /\ nEvents >= 5

\* str.lstrip(c) for a single character c
RECURSIVE LStrip(_, _)
LStrip(text, c) ==
    IF text # <<>> /\ text[1] = c THEN LStrip(Tail(text), c) ELSE text

\* a digit sequence without its leading zeros, "0" if nothing remains
WithoutLeadingZeros(ds) ==
    IF LStrip(ds, "0") = <<>> THEN <<"0">> ELSE LStrip(ds, "0")

\* C10: after digit events only, the display is the digit sequence
\* without its leading zeros, or "0" if all digits are zeros.
C10_Examples ==
    /\ Shown(<<"0", "0", "5">>) = <<"5">>
    /\ Shown(<<"0", "0">>) = <<"0">>
    /\ Shown(<<"1", "0", "0">>) = <<"1", "0", "0">>

C10_DigitSequence ==
    /\ C10_Examples
    /\ typed # NotDigits => display = WithoutLeadingZeros(typed)

C10_Witness ==
    /\ typed = <<"0", "0", "2", "0">>
    /\ display = <<"2", "0">>

\* C11: a second decimal point right after a decimal point changes no
\* field, in every reachable state; a decimal point entered while a new
\* number is awaited shows "0." and ends the waiting.
C11_DotIdempotent ==
    /\ dot_clicked(dot_clicked(Calc)) = dot_clicked(Calc)
    /\ event[1] = "dot" => dot_clicked(Calc) = Calc
    /\ (event[1] = "dot" /\ pre.waiting_for_new_number)
       => /\ display = <<"0", ".">>
          /\ ~waiting_for_new_number
          /\ left_operand = pre.left_operand
          /\ pending_op = pre.pending_op

C11_Witness ==
    /\ event[1] = "dot"
    /\ pre.waiting_for_new_number
    /\ pre.display = <<"3">>
    /\ pre.pending_op = NoOp
    /\ display = <<"0", ".">>

\* C12: backspace entered while a new number is awaited leaves the display
\* "0" and changes no other field, also right after a result or an
\* operator.
C12_BackspaceWhenWaiting ==
    (event[1] = "backspace" /\ pre.waiting_for_new_number)
    => /\ display = <<"0">>
       /\ left_operand = pre.left_operand
       /\ pending_op = pre.pending_op
       /\ waiting_for_new_number = pre.waiting_for_new_number

C12_Witness ==
    /\ event[1] = "backspace"
    /\ pre.waiting_for_new_number
    /\ pre.display = <<"1", "2">>
    /\ pre.pending_op = "+"
    /\ display = <<"0">>

\* the last event evaluated the pending operator: an operator entered with
\* a left operand, a pending operator and a newly typed number, or an
\* equals entered with a pending operator
Evaluated ==
    \/ /\ event[1] = "operator"
       /\ pre.left_operand # None
       /\ pre.pending_op # NoOp
       /\ ~pre.waiting_for_new_number
    \/ /\ event[1] = "equals"
       /\ pre.pending_op # NoOp

\* fields a handler can be called on: a text on the display, a float or
\* None as left operand, an operator or None pending, a flag
WellFormed(s) ==
    /\ DOMAIN s = {"display", "left_operand", "pending_op",
                   "waiting_for_new_number"}
    /\ s.display \in Seq(STRING) /\ s.display # <<>>
    /\ s.left_operand.k \in {"none", "fin", "inf", "nan"}
    /\ s.left_operand.k = "fin" => s.left_operand.den > 0
    /\ s.pending_op \in Ops \cup {NoOp}
    /\ s.waiting_for_new_number \in BOOLEAN

\* C13: an evaluation that divides by a right operand equal to zero shows
\* "Error", and in every reachable state, also after an error, each of the
\* six events runs to completion and leaves well-formed fields (operator
\* and equals on operands within MaxOperand).
C13_DivisionByZeroIsError ==
    /\ (Evaluated /\ pre.pending_op = "/" /\ IsZero(cur_val(pre.display)))
       => /\ display = ErrorText
          /\ waiting_for_new_number
    /\ WellFormed(Calc)
    /\ \A ch \in Digits : WellFormed(digit_clicked(Calc, ch))
    /\ WellFormed(dot_clicked(Calc))
    /\ WellFormed(clear(Calc))
    /\ WellFormed(backspace(Calc))
    /\ Computable(Calc)
       => /\ \A op \in Ops : WellFormed(operator_clicked(Calc, op))
          /\ WellFormed(equals_clicked(Calc))

C13_Witness ==
    /\ event[1] = "operator"
    /\ pre.pending_op = "/"
    /\ ~pre.waiting_for_new_number
    /\ pre.display = <<"0">>
    /\ pre.left_operand = Fin(FALSE, 2, 1)
    /\ display = ErrorText

\* C14 as stated: whenever an evaluation shows "Error", the operator
\* applied is divide and its right operand is zero.
C14_OnlyDivisionByZeroErrors ==
    (Evaluated /\ display = ErrorText)
    => /\ pre.pending_op = "/"
       /\ IsZero(cur_val(pre.display))

\* C15: whenever the display shows "Error" a new number is awaited, so the
\* next digit d shows exactly d, the next decimal point shows "0." and
\* backspace shows "0": the error text is replaced, never appended to.
C15_ErrorRecovery ==
    /\ display = ErrorText
       => /\ waiting_for_new_number
          /\ \A ch \in Digits : digit_clicked(Calc, ch).display = <<ch>>
          /\ dot_clicked(Calc).display = <<"0", ".">>
          /\ backspace(Calc).display = <<"0">>
    /\ (pre.display = ErrorText /\ event[1] = "digit") => display = <<event[2]>>
    /\ (pre.display = ErrorText /\ event[1] = "dot") => display = <<"0", ".">>
    /\ (pre.display = ErrorText /\ event[1] = "backspace") => display = <<"0">>

C15_Witness ==
    /\ pre.display = ErrorText
    /\ pre.pending_op = NoOp
    /\ event = <<"digit", "2">>
    /\ display = <<"2">>
    /\ ~waiting_for_new_number

\* the last event read the display as a number: an operator, or an equals
\* with a pending operator
ReadDisplay ==
    \/ event[1] = "operator"
    \/ event[1] = "equals" /\ pre.pending_op # NoOp

\* C16 as stated: whenever an operator or an equals with a pending
\* operator reads the display, the text parses as a number.
C16_ParseNeverFails == ReadDisplay => ParseFloat(pre.display).ok

\* C16 as amended: the text read fails to parse exactly when it is
\* "Error"; every other text read parses as a number.
C16_ParseFailsOnlyOnError ==
    ReadDisplay => (~ParseFloat(pre.display).ok <=> pre.display = ErrorText)

C16_Witness ==
    /\ event[1] = "operator"
    /\ pre.display = ErrorText
    /\ pre.left_operand = None
    /\ left_operand = Zero

\* the text of a finite value v is in fixed point without trailing zeros
\* after the point and without a trailing point, has no point at all when
\* v is a whole number, and reads back as v
FormatsPlainly(v) ==
    LET text == format_number(v)
    IN  /\ text # <<>>
        /\ IsDecimal(IF v.neg THEN Tail(text) ELSE text)
        /\ v.neg <=> text[1] = "-"
        /\ Contains(text, ".") => text[Len(text)] \notin {"0", "."}
        /\ v.den = 1 => ~Contains(text, ".")
        /\ ParseFloat(text).val = v

C17_Examples ==
    /\ format_number(Fin(FALSE, 6, 1)) = <<"6">>
    /\ format_number(Zero) = <<"0">>
    /\ format_number(Fin(FALSE, 625, 100)) = <<"6", ".", "2", "5">>
    /\ Shown(<<"2", "*", "3", "=">>) = <<"6">>
    /\ Shown(<<"2", "5", "/", "4", "=">>) = <<"6", ".", "2", "5">>

\* C17: every finite value the calculator holds or shows (at most ten
\* fractional digits) is formatted in fixed point with no trailing zeros
\* after the point and no trailing point, a whole number with no point at
\* all, and never as the empty text; 6.0 gives "6", 0 gives "0" and 6.25
\* gives "6.25".
C17_FormatStripsZeros ==
    /\ C17_Examples
    /\ left_operand.k = "fin" => FormatsPlainly(left_operand)
    /\ IsNumeric(display) => FormatsPlainly(ParseFloat(display).val)
    /\ (Evaluated /\ event[1] = "operator" /\ left_operand.k = "fin")
       => display = format_number(left_operand)

C17_Witness ==
    /\ Evaluated
    /\ event[1] = "operator"
    /\ left_operand = Fin(TRUE, 1, 2)
    /\ display = <<"-", "0", ".", "5">>

\* C18: backspace entered while an entry is in progress shows "0" and
\* awaits a new number when the entry has at most one character, and
\* otherwise removes exactly the last character and keeps the entry in
\* progress; left operand and pending operator do not change.
C18_BackspaceInEntry ==
    (event[1] = "backspace" /\ ~pre.waiting_for_new_number)
    => /\ Len(pre.display) <= 1
          => display = <<"0">> /\ waiting_for_new_number
       /\ Len(pre.display) > 1
          => /\ display \o <<pre.display[Len(pre.display)]>> = pre.display
             /\ ~waiting_for_new_number
       /\ left_operand = pre.left_operand
       /\ pending_op = pre.pending_op

C18_Witness ==
    /\ event[1] = "backspace"
    /\ ~pre.waiting_for_new_number
    /\ pre.display = <<"1", ".", "2">>
    /\ pre.pending_op = "*"
    /\ display = <<"1", ".">>

\* C19: the left operand is present exactly when an operator is pending:
\* an operator leaves both present, equals and clear leave both absent,
\* digits, decimal point and backspace change neither; so equals never
\* uses 0.0 in place of an absent left operand.
C19_LeftIffPending ==
    /\ left_operand # None <=> pending_op # NoOp
    /\ event[1] = "operator" => left_operand # None /\ pending_op # NoOp
    /\ event[1] \in {"equals", "clear"} => left_operand = None /\ pending_op = NoOp
    /\ event[1] \in {"digit", "dot", "backspace"}
       => left_operand = pre.left_operand /\ pending_op = pre.pending_op
    /\ (event[1] = "equals" /\ pre.pending_op # NoOp) => pre.left_operand # None

C19_Witness ==
    /\ event[1] = "equals"
    /\ pre.pending_op = "-"
    /\ pre.left_operand = Fin(FALSE, 1, 1)
    /\ left_operand = None
    /\ pending_op = NoOp

\* C20: while an entry is in progress the display is a typed entry: it is
\* not empty, starts with a digit and has only digits and at most one
\* decimal point; an event that writes a result or "Error" awaits a new
\* number, and only a digit or a decimal point ends the waiting.
C20_EntryIsTyped ==
    /\ ~waiting_for_new_number
       => /\ display # <<>>
          /\ IsDigit(display[1])
          /\ IsDecimal(display)
    /\ Evaluated => waiting_for_new_number
    /\ event[1] \in {"operator", "clear"} => waiting_for_new_number
    /\ (pre.waiting_for_new_number /\ ~waiting_for_new_number)
       => event[1] \in {"digit", "dot"}

C20_Witness ==
    /\ ~waiting_for_new_number
    /\ event[1] = "dot"
    /\ pre.display = ErrorText
    /\ pre.pending_op # NoOp
    /\ display = <<"0", ".">>

====
